---- MODULE Spec2Model ----
(***************************************************************************)
(* A model of the nettle node (src/src/lib.rs): the routing table, the     *)
(* content store, the inbound handlers and the outbound walks, with the    *)
(* tag arithmetic of src/src/tag.rs.                                       *)
(*                                                                         *)
(* A Tag is an array of TagBytes bytes of ByteBits bits each (32 and 8 in  *)
(* the source).  A PublicId {tag, key} has tag == fingerprint(key), so it  *)
(* is represented by its tag.  An address is the number of the node it     *)
(* reaches.  Option values are sequences: <<>> is None, <<x>> is Some(x).  *)
(* Every atomic step of the model is one critical section of with_state    *)
(* together with the lock-free code that follows it up to the next await.  *)
(***************************************************************************)
EXTENDS Integers, Sequences, FiniteSets, TLC

\* ------------------------------------------------------------------ bounds
TagBytes == 2
ByteBits == 2
NumNodes == 4
MaxTasks == 2
MaxIdx   == 3
MaxFails == 1
MaxData  == 2
NumChain == 6
MaxInitial == 2

\* ------------------------------------------------------- program constants
MAX_LEVEL_PEERS == 2

\* -------------------------------------------------------------------- tags
ByteVals == 2 ^ ByteBits
Tag      == [1..TagBytes -> 0..(ByteVals - 1)]
TopLevel == TagBytes * ByteBits - 1
Levels   == 0..TopLevel
Nodes    == 1..NumNodes
Tasks    == 1..MaxTasks
Data     == 0..(MaxData - 1)

None     == <<>>
Some(x)  == <<x>>

\* Tag::from_bytes over the big-endian bytes of n
from_bytes(n) ==
    [i \in 1..TagBytes |-> (n \div (ByteVals ^ (TagBytes - i))) % ByteVals]

RECURSIVE xor_byte(_, _)
xor_byte(a, b) ==
    IF a = 0 THEN b
    ELSE IF b = 0 THEN a
    ELSE ((a + b) % 2) + 2 * xor_byte(a \div 2, b \div 2)

RECURSIVE ilog2(_)
ilog2(b) == IF b < 2 THEN 0 ELSE 1 + ilog2(b \div 2)

\* Tag::dist_to: byte-wise xor
dist_to(a, b) == [i \in 1..TagBytes |-> xor_byte(a[i], b[i])]

\* Tag::level: the first non-zero byte b at (0-based) index i gives
\* 255 - i * 8 - ilog2(b); the zero tag gives 0
level(d) ==
    IF \A i \in 1..TagBytes : d[i] = 0 THEN 0
    ELSE LET i == CHOOSE k \in 1..TagBytes :
                      d[k] # 0 /\ \A j \in 1..(k - 1) : d[j] = 0
         IN  TopLevel - (i - 1) * ByteBits - ilog2(d[i])

\* derive(PartialOrd, Ord) on Tag([u8; 32]): lexicographic on the bytes
tag_lt(a, b) ==
    \E i \in 1..TagBytes :
        a[i] < b[i] /\ \A j \in 1..(i - 1) : a[j] = b[j]

\* Tag::digest (SHA3-256): a fixed collision-free map from blobs to tags
digest(d) == from_bytes((5 * d + 6) % (ByteVals ^ TagBytes))

\* ------------------------------------------------------------------- state
VARIABLES
    self_id,         \* Node.self_id.pub_id of every node
    peers,           \* State.peers: PeerIdx -> Peer
    peers_by_id,     \* State.peers_by_id: PublicId -> PeerIdx
    peers_by_level,  \* State.peers_by_level: level -> Vec<PeerIdx>
    next_idx,        \* the next fresh key of the node's SlotMap
    data,            \* State.data: Tag -> bytes
    tasks,           \* the running calls: position and locals of each
    fails            \* transport errors so far

vars == <<self_id, peers, peers_by_id, peers_by_level, next_idx, data, tasks, fails>>

\* PrivateId::generate(): the identities a network may draw
IdSeeds == { <<0, 8, 9, 12, 5, 3, 14>> }
NodeIds == { [n \in Nodes |-> from_bytes(s[n])] : s \in IdSeeds }

NoRes == [kind |-> "none", val |-> None]
Idle  == [op |-> "idle", pc |-> "idle", node |-> 0, sid |-> None, addr |-> 0,
          at |-> 0, pid |-> None, paddr |-> 0, snap |-> {}, res |-> NoRes,
          blob |-> None, tag |-> None, cur |-> None, seen |-> {}, hops |-> 0,
          lied |-> FALSE, stable |-> TRUE, calm |-> TRUE, max_level |-> 0,
          initial_peers |-> << >>, todo |-> << >>, holds |-> 0]

\* a new call takes the first slot that holds no running call
Free(t) ==
    /\ tasks[t].pc \in {"idle", "done"}
    /\ \A u \in 1..(t - 1) : tasks[u].pc \notin {"idle", "done"}

\* Node::with_state: the critical section of a step at node n takes n's
\* state mutex, which no call may hold (`holds` is the node whose mutex a
\* call holds while it is suspended, 0 for none) and gives it back before
\* the step ends
Unlocked(n) == \A u \in Tasks : tasks[u].holds # n

\* a call that returned: its slot keeps what it was and what it returned
Finish(t, r) == [Idle EXCEPT !.op = tasks[t].op, !.pc = "done", !.res = r]

\* Node::new
InitState ==
    /\ self_id \in NodeIds
    /\ peers = [n \in Nodes |-> << >>]
    /\ peers_by_id = [n \in Nodes |-> << >>]
    /\ peers_by_level = [n \in Nodes |-> [l \in Levels |-> << >>]]
    /\ next_idx = [n \in Nodes |-> 0]
    /\ data = [n \in Nodes |-> << >>]
    /\ tasks = [t \in Tasks |-> Idle]
    /\ fails = 0

\* ----------------------------------------------------------- routing table
level_of(n, id) == level(dist_to(self_id[n], id))

\* Node::can_accept_peer (first a variant without the test of the bucket)
can_accept_peer_nocap(n, id) ==
    /\ id # self_id[n]
    /\ id \notin DOMAIN peers_by_id[n]
can_accept_peer(n, id) ==
    /\ id # self_id[n]
    /\ Len(peers_by_level[n][level_of(n, id)]) < MAX_LEVEL_PEERS
    /\ id \notin DOMAIN peers_by_id[n]

\* the guard of Node::accept_peer that precedes the liveness probe
\* (a variant that omits the comparison with the node's own id)
accept_guard_noself(n, id) == id \notin DOMAIN peers_by_id[n]
accept_guard(n, id) == id # self_id[n] /\ id \notin DOMAIN peers_by_id[n]

\* the critical section of Node::accept_peer: peers_by_id.entry(id).or_insert_with
\* (first a variant that inserts without looking for the id)
accept_insert_always(n, id, addr) ==
    LET idx == next_idx[n]
        lvl == level_of(n, id)
    IN  /\ idx < MaxIdx
        /\ peers' = [peers EXCEPT ![n] = @ @@ (idx :> [id |-> id, addr |-> addr])]
        /\ peers_by_level' = [peers_by_level EXCEPT ![n][lvl] = Append(@, idx)]
        /\ peers_by_id' = [peers_by_id EXCEPT ![n] = (id :> idx) @@ @]
        /\ next_idx' = [next_idx EXCEPT ![n] = idx + 1]
accept_insert(n, id, addr) ==
    IF id \in DOMAIN peers_by_id[n]
    THEN UNCHANGED <<peers, peers_by_id, peers_by_level, next_idx>>
    ELSE LET idx == next_idx[n]
             lvl == level_of(n, id)
         IN  /\ idx < MaxIdx
             /\ peers' = [peers EXCEPT ![n] = @ @@ (idx :> [id |-> id, addr |-> addr])]
             /\ peers_by_level' = [peers_by_level EXCEPT ![n][lvl] = Append(@, idx)]
             /\ peers_by_id' = [peers_by_id EXCEPT ![n] = @ @@ (id :> idx)]
             /\ next_idx' = [next_idx EXCEPT ![n] = idx + 1]

Without(f, k) == [x \in (DOMAIN f) \ {k} |-> f[x]]
Retain(s, idx) == SelectSeq(s, LAMBDA x : x # idx)

\* Node::remove_peer (first a variant that leaves the peers_by_id entry)
remove_peer_keep_id(n, idx) ==
    IF idx \in DOMAIN peers[n]
    THEN LET lvl == level_of(n, peers[n][idx].id)
         IN  /\ peers' = [peers EXCEPT ![n] = Without(@, idx)]
             /\ peers_by_level' = [peers_by_level EXCEPT ![n][lvl] = Retain(@, idx)]
             /\ UNCHANGED peers_by_id
    ELSE UNCHANGED <<peers, peers_by_id, peers_by_level>>
remove_peer(n, idx) ==
    IF idx \in DOMAIN peers[n]
    THEN LET peer == peers[n][idx]
             lvl  == level_of(n, peer.id)
         IN  /\ peers' = [peers EXCEPT ![n] = Without(@, idx)]
             /\ peers_by_id' = [peers_by_id EXCEPT ![n] = Without(@, peer.id)]
             /\ peers_by_level' = [peers_by_level EXCEPT ![n][lvl] = Retain(@, idx)]
    ELSE UNCHANGED <<peers, peers_by_id, peers_by_level>>

\* -------------------------------------------- discover_peer and recv_greet
\* Node::discover_peer up to the greet's departure; supposed_id is any id of
\* the network or None, addr any address
discover_peer_call(t, n, sid, addr) ==
    /\ Free(t)
    /\ sid # None => Unlocked(n)
    /\ UNCHANGED <<self_id, peers, peers_by_id, peers_by_level, next_idx, data>>
    /\ LET call == [Idle EXCEPT !.op = "discover_peer", !.node = n,
                                !.sid = sid, !.addr = addr]
       IN  IF sid # None /\ ~can_accept_peer(n, sid[1])
           THEN /\ tasks' = [tasks EXCEPT ![t] =
                      [Idle EXCEPT !.op = "discover_peer", !.pc = "done",
                                   !.res = [kind |-> "Err", val |-> None]]]
                /\ UNCHANGED fails
           ELSE \/ /\ tasks' = [tasks EXCEPT ![t] = [call EXCEPT !.pc = "greet"]]
                   /\ UNCHANGED fails
                \/ /\ fails < MaxFails
                   /\ fails' = fails + 1
                   /\ tasks' = [tasks EXCEPT ![t] =
                         [Idle EXCEPT !.op = "discover_peer", !.pc = "done",
                                      !.res = [kind |-> "Err", val |-> None]]]

\* Node::recv_greet at the greeted node: can_accept_peer(sender)
recv_greet(t) ==
    /\ tasks[t].pc = "greet"
    /\ Unlocked(tasks[t].addr)
    /\ UNCHANGED <<self_id, peers, peers_by_id, peers_by_level, next_idx, data, fails>>
    /\ LET p == tasks[t].addr
           n == tasks[t].node
       IN  tasks' = [tasks EXCEPT ![t] =
              IF can_accept_peer(p, self_id[n])
              THEN [@ EXCEPT !.pc = "rg_accept", !.at = p,
                             !.pid = Some(self_id[n]), !.paddr = n]
              ELSE [@ EXCEPT !.pc = "rg_refuse"]]

\* Node::recv_greet, the else branch: any routed peer's address, or None
\* (first a variant that never names a peer)
recv_greet_refuse_none(t) ==
    /\ tasks[t].pc = "rg_refuse"
    /\ Unlocked(tasks[t].addr)
    /\ UNCHANGED <<self_id, peers, peers_by_id, peers_by_level, next_idx, data, fails>>
    /\ tasks' = [tasks EXCEPT ![t] = Finish(t, [kind |-> "Err", val |-> None])]
recv_greet_refuse(t) ==
    /\ tasks[t].pc = "rg_refuse"
    /\ Unlocked(tasks[t].addr)
    /\ UNCHANGED <<self_id, peers, peers_by_id, peers_by_level, next_idx, data, fails>>
    /\ LET p == tasks[t].addr
       IN  \E alt \in IF DOMAIN peers[p] = {} THEN {None}
                      ELSE {Some(peers[p][i].addr) : i \in DOMAIN peers[p]} :
               tasks' = [tasks EXCEPT ![t] = Finish(t, [kind |-> "Err", val |-> alt])]

\* Node::accept_peer up to the pong: the guard, then the probe of addr
\* (recv_ping changes nothing at the probed node)
\* (first a variant that keeps the state mutex while it awaits the pong)
accept_probe_locked(t) ==
    /\ tasks[t].pc \in {"rg_accept", "dp_accept", "ap_accept"}
    /\ Unlocked(tasks[t].at)
    /\ UNCHANGED <<self_id, peers, peers_by_id, peers_by_level, next_idx, data, fails>>
    /\ LET pc   == tasks[t].pc
           pass == [rg_accept |-> "rg_insert", dp_accept |-> "dp_insert",
                    ap_accept |-> "ap_insert"][pc]
       IN  tasks' = [tasks EXCEPT ![t].pc = pass, ![t].holds = tasks[t].at]
accept_probe(t) ==
    /\ tasks[t].pc \in {"rg_accept", "dp_accept", "ap_accept"}
    /\ Unlocked(tasks[t].at)
    /\ UNCHANGED <<self_id, peers, peers_by_id, peers_by_level, next_idx, data>>
    /\ LET pc   == tasks[t].pc
           pass == [rg_accept |-> "rg_insert", dp_accept |-> "dp_insert",
                    ap_accept |-> "ap_insert"][pc]
           no   == IF pc = "rg_accept" THEN [tasks[t] EXCEPT !.pc = "rg_refuse"]
                   ELSE IF pc = "dp_accept" THEN Finish(t, [kind |-> "Ok", val |-> None])
                   ELSE Finish(t, [kind |-> "false", val |-> None])
       IN  IF accept_guard(tasks[t].at, tasks[t].pid[1])
           THEN \/ /\ tasks' = [tasks EXCEPT ![t].pc = pass]
                   /\ UNCHANGED fails
                \/ /\ fails < MaxFails
                   /\ fails' = fails + 1
                   /\ tasks' = [tasks EXCEPT ![t] = no]
           ELSE /\ tasks' = [tasks EXCEPT ![t] = no]
                /\ UNCHANGED fails

\* Node::accept_peer after the pong: the insert, then what the caller does
\* with `true` (recv_greet answers Ok(self.id), which discover_peer matches
\* against supposed_id)
\* (first a variant that does not compare the reply with supposed_id; a
\* call that ends on a reply with another id keeps its arguments)
accept_done_nomatch(t) ==
    /\ tasks[t].pc \in {"rg_insert", "dp_insert", "ap_insert"}
    /\ Unlocked(tasks[t].at)
    /\ accept_insert(tasks[t].at, tasks[t].pid[1], tasks[t].paddr)
    /\ UNCHANGED <<self_id, data, fails>>
    /\ LET pc == tasks[t].pc
           n  == tasks[t].node
           p  == tasks[t].addr
       IN  tasks' = [tasks EXCEPT ![t] =
              IF pc = "rg_insert"
              THEN [@ EXCEPT !.pc = "dp_accept", !.at = n,
                             !.pid = Some(self_id[p]), !.paddr = p]
              ELSE IF pc = "dp_insert" THEN Finish(t, [kind |-> "Ok", val |-> None])
              ELSE Finish(t, [kind |-> "true", val |-> None])]
accept_done(t) ==
    /\ tasks[t].pc \in {"rg_insert", "dp_insert", "ap_insert"}
    /\ Unlocked(tasks[t].at)
    /\ accept_insert(tasks[t].at, tasks[t].pid[1], tasks[t].paddr)
    /\ UNCHANGED <<self_id, data, fails>>
    /\ LET pc == tasks[t].pc
           n  == tasks[t].node
           p  == tasks[t].addr
       IN  tasks' = [tasks EXCEPT ![t] =
              IF pc = "rg_insert"
              THEN IF tasks[t].sid = None \/ tasks[t].sid = Some(self_id[p])
                   THEN [@ EXCEPT !.pc = "dp_accept", !.at = n,
                                  !.pid = Some(self_id[p]), !.paddr = p]
                   ELSE [Finish(t, [kind |-> "Err", val |-> None])
                            EXCEPT !.node = n, !.sid = tasks[t].sid, !.addr = p]
              ELSE IF pc = "dp_insert" THEN Finish(t, [kind |-> "Ok", val |-> None])
              ELSE Finish(t, [kind |-> "true", val |-> None])]

\* a direct call of Node::accept_peer with a node's id and address
accept_peer_call(t, n, m) ==
    /\ Free(t)
    /\ UNCHANGED <<self_id, peers, peers_by_id, peers_by_level, next_idx, data, fails>>
    /\ tasks' = [tasks EXCEPT ![t] =
          [Idle EXCEPT !.op = "accept_peer", !.pc = "ap_accept", !.node = n,
                       !.at = n, !.pid = Some(self_id[m]), !.paddr = m]]

\* ---------------------------------------------------------------- ping tick
\* Node::run, the ping tick: the snapshot of (idx, addr)
ping_tick(t, n) ==
    /\ Free(t)
    /\ Unlocked(n)
    /\ DOMAIN peers[n] # {}
    /\ UNCHANGED <<self_id, peers, peers_by_id, peers_by_level, next_idx, data, fails>>
    /\ tasks' = [tasks EXCEPT ![t] =
          [Idle EXCEPT !.op = "ping_tick", !.pc = "pt_loop", !.node = n,
                       !.snap = {<<i, peers[n][i].addr>> : i \in DOMAIN peers[n]}]]

\* one iteration of the ping tick: a pong, or a transport error and
\* remove_peer, while fewer than `budget` transport errors have occurred
\* (first a variant that removes the oldest routed peer instead)
ping_tick_probe_oldest(t, budget) ==
    /\ tasks[t].pc = "pt_loop"
    /\ UNCHANGED <<self_id, next_idx, data>>
    /\ \E e \in tasks[t].snap :
          LET rest == tasks[t].snap \ {e}
              nxt  == IF rest = {} THEN Finish(t, NoRes)
                      ELSE [tasks[t] EXCEPT !.snap = rest]
              n    == tasks[t].node
              old  == IF DOMAIN peers[n] = {} THEN e[1]
                      ELSE CHOOSE i \in DOMAIN peers[n] : \A j \in DOMAIN peers[n] : i <= j
          IN  /\ tasks' = [tasks EXCEPT ![t] = nxt]
              /\ \/ UNCHANGED <<peers, peers_by_id, peers_by_level, fails>>
                 \/ /\ fails < budget
                    /\ Unlocked(tasks[t].node)
                    /\ fails' = fails + 1
                    /\ remove_peer(n, old)
ping_tick_probe(t, budget) ==
    /\ tasks[t].pc = "pt_loop"
    /\ UNCHANGED <<self_id, next_idx, data>>
    /\ \E e \in tasks[t].snap :
          LET rest == tasks[t].snap \ {e}
              nxt  == IF rest = {} THEN Finish(t, NoRes)
                      ELSE [tasks[t] EXCEPT !.snap = rest]
          IN  /\ tasks' = [tasks EXCEPT ![t] = nxt]
              /\ \/ UNCHANGED <<peers, peers_by_id, peers_by_level, fails>>
                 \/ /\ fails < budget
                    /\ Unlocked(tasks[t].node)
                    /\ fails' = fails + 1
                    /\ remove_peer(tasks[t].node, e[1])

ping_tick_step(t) == ping_tick_probe(t, MaxFails)

\* ----------------------------------------------------------- recv_discover
\* Node::recv_discover: the answers the handler at p can give, one routed
\* peer chosen at random among those that pass both filters, or None (first
\* a variant without the filter on the level)
recv_discover_nolevel(p, target, max_level) ==
    LET ok == {i \in DOMAIN peers[p] : peers[p][i].id # target}
    IN  IF ok = {} THEN {None} ELSE {Some(peers[p][i]) : i \in ok}
recv_discover(p, target, max_level) ==
    LET ok == {i \in DOMAIN peers[p] :
                  /\ peers[p][i].id # target
                  /\ level(dist_to(peers[p][i].id, target)) <= max_level}
    IN  IF ok = {} THEN {None} ELSE {Some(peers[p][i]) : i \in ok}

\* a discover request with any target and level, answered by node p
recv_discover_call(t, p, target, max_level) ==
    /\ Free(t)
    /\ UNCHANGED <<self_id, peers, peers_by_id, peers_by_level, next_idx, data, fails>>
    /\ \E r \in recv_discover(p, target, max_level) :
          tasks' = [tasks EXCEPT ![t] =
              [Idle EXCEPT !.op = "discover", !.pc = "done", !.node = p,
                           !.tag = Some(target), !.max_level = max_level,
                           !.res = [kind |-> "Ok", val |-> r]]]

\* ------------------------------------------------------------------ routing
\* The routing operations, run in the task slots TS with the (caller,
\* address) pairs PS as the inputs of discover_peer and accept_peer.
RouteStep(TS, PS) ==
    \/ \E t \in TS, na \in PS :
          \E sid \in {None, Some(self_id[na[2]])} :
              discover_peer_call(t, na[1], sid, na[2])
    \/ \E t \in TS : recv_greet(t)
    \/ \E t \in TS : recv_greet_refuse(t)
    \/ \E t \in TS : accept_probe(t)
    \/ \E t \in TS : accept_done(t)
    \/ \E t \in TS, na \in PS : accept_peer_call(t, na[1], na[2])
    \/ \E t \in TS, n \in Nodes : ping_tick(t, n)
    \/ \E t \in TS : ping_tick_step(t)

\* Concurrent calls: node 1 is the initial peer of every other node but the
\* last, and itself greets any of them (its own address included).
RoutePairs == {<<n, a>> \in (1..(NumNodes - 1)) \X (1..(NumNodes - 1)) : n = 1 \/ a = 1}
NextRoute == RouteStep(Tasks, RoutePairs)
SpecRoute == InitState /\ [][NextRoute]_vars

\* Sequential calls: node 1 has every address as an initial peer and greets
\* each as the bootstrap loop does, with no supposed id.
NextBoot ==
    \/ \E a \in Nodes : discover_peer_call(1, 1, None, a)
    \/ recv_greet(1)
    \/ recv_greet_refuse(1)
    \/ accept_probe(1)
    \/ accept_done(1)
    \/ \E n \in Nodes : ping_tick(1, n)
    \/ ping_tick_step(1)
SpecBoot == InitState /\ [][NextBoot]_vars

\* The handlers called from outside, one call at a time, on the routing
\* tables that greets, accepts and ping ticks build: discover requests whose
\* target is any node's tag and whose level is any level.
HandlerPairs == {<<n, a>> \in Nodes \X Nodes : n = 1 \/ a = 1}
NextHandlers ==
    \/ RouteStep({1}, HandlerPairs)
    \/ \E p \in Nodes, m \in Nodes, l \in Levels :
          recv_discover_call(1, p, self_id[m], l)
SpecHandlers == InitState /\ [][NextHandlers]_vars

\* Sequential discover_peer calls between node 1 and the others, with no
\* supposed id or with any node's id as the supposed id.
NextGreet ==
    \/ \E na \in HandlerPairs :
          \E sid \in {None} \cup {Some(self_id[m]) : m \in Nodes} :
              discover_peer_call(1, na[1], sid, na[2])
    \/ recv_greet(1)
    \/ recv_greet_refuse(1)
    \/ accept_probe(1)
    \/ accept_done(1)
    \/ \E n \in Nodes : ping_tick(1, n)
    \/ ping_tick_step(1)
SpecGreet == InitState /\ [][NextGreet]_vars

\* --------------------------------------------------------------- Node::run
\* Node::run of one node occupies the last slot; the call it awaits runs in
\* slot 1.  `initial_peers` is the configured list, `todo` what is left of it
\* from the address in progress on, `addr` the local peer_addr of the loop.
Runner == MaxTasks

\* the state of run() as it enters the bootstrap loop
run_start(n, ips) ==
    [Idle EXCEPT !.op = "run", !.node = n, !.initial_peers = ips, !.todo = ips,
                 !.pc = IF ips = << >> THEN "ticks" ELSE "boot",
                 !.addr = IF ips = << >> THEN 0 ELSE ips[1]]

\* Node::run, bootstrap loop: discover_peer(None, peer_addr) is called
boot_call ==
    /\ tasks[Runner].op = "run" /\ tasks[Runner].pc = "boot"
    /\ tasks[1].pc = "idle"
    /\ discover_peer_call(1, tasks[Runner].node, None, tasks[Runner].addr)

\* the run() that has finished with the initial address in progress
boot_advance(run) ==
    LET rest == Tail(run.todo)
    IN  IF rest = << >> THEN [run EXCEPT !.pc = "ticks", !.todo = rest, !.addr = 0]
        ELSE [run EXCEPT !.todo = rest, !.addr = rest[1]]

\* Node::run, bootstrap loop: the match on the result of discover_peer
\* (first a variant that gives up the address on a redirect)
boot_return_noredirect ==
    /\ tasks[Runner].op = "run" /\ tasks[Runner].pc = "boot"
    /\ tasks[1].op = "discover_peer" /\ tasks[1].pc = "done"
    /\ UNCHANGED <<self_id, peers, peers_by_id, peers_by_level, next_idx, data, fails>>
    /\ tasks' = [tasks EXCEPT ![1] = Idle, ![Runner] = boot_advance(tasks[Runner])]
boot_return ==
    /\ tasks[Runner].op = "run" /\ tasks[Runner].pc = "boot"
    /\ tasks[1].op = "discover_peer" /\ tasks[1].pc = "done"
    /\ UNCHANGED <<self_id, peers, peers_by_id, peers_by_level, next_idx, data, fails>>
    /\ LET r == tasks[1].res
       IN  tasks' = [tasks EXCEPT
              ![1] = Idle,
              ![Runner] = IF r.kind = "Err" /\ r.val # None
                          THEN [@ EXCEPT !.addr = r.val[1]]
                          ELSE boot_advance(@)]

\* Node::run, the ping tick of the select loop
run_ping_tick ==
    /\ tasks[Runner].op = "run" /\ tasks[Runner].pc = "ticks"
    /\ ping_tick(1, tasks[Runner].node)

\* Node::run, the discover tick: a routed peer chosen at random is the
\* current peer, and the levels are walked from the highest down
discover_tick ==
    /\ tasks[Runner].op = "run" /\ tasks[Runner].pc = "ticks"
    /\ tasks[1].pc \in {"idle", "done"}
    /\ UNCHANGED <<self_id, peers, peers_by_id, peers_by_level, next_idx, data, fails>>
    /\ \E i \in DOMAIN peers[tasks[Runner].node] :
          tasks' = [tasks EXCEPT
             ![1] = Idle,
             ![Runner] = [@ EXCEPT !.pc = "dt_send", !.max_level = TopLevel,
                                   !.cur = Some(peers[tasks[Runner].node][i])]]

\* the discover tick after the iteration at current_level: the next lower
\* level, or the end of the tick
dt_next(run) ==
    IF run.max_level = 0
    THEN [run EXCEPT !.pc = "ticks", !.cur = None, !.pid = None, !.paddr = 0,
                     !.lied = FALSE]
    ELSE [run EXCEPT !.pc = "dt_send", !.max_level = @ - 1, !.pid = None, !.paddr = 0,
                     !.lied = FALSE]

\* the discover tick on the reply r.peer of the current peer: Some((id,
\* addr)) leads to discover_peer(Some(&id), addr), None ends the tick;
\* `lie` records that the reply was not computed by recv_discover
dt_on_reply(run, r, lie) ==
    IF r = None
    THEN [run EXCEPT !.pc = "ticks", !.cur = None, !.max_level = 0]
    ELSE [run EXCEPT !.pc = "dt_greet", !.pid = Some(r[1].id), !.paddr = r[1].addr,
                     !.lied = lie]

\* a discover request of the tick answered by a node that runs recv_discover
dt_reply ==
    /\ tasks[Runner].pc = "dt_send"
    /\ UNCHANGED <<self_id, peers, peers_by_id, peers_by_level, next_idx, data, fails>>
    /\ LET run == tasks[Runner]
       IN  \E r \in recv_discover(run.cur[1].addr, self_id[run.node], run.max_level) :
              tasks' = [tasks EXCEPT ![Runner] = dt_on_reply(run, r, FALSE)]

\* the replies a peer that does not run this code can send: no peer, or any
\* node of the network
Offers == {None} \cup {Some([id |-> self_id[m], addr |-> m]) : m \in Nodes}

\* a discover request of the tick answered by a peer that does not run this code
dt_reply_any ==
    /\ tasks[Runner].pc = "dt_send"
    /\ UNCHANGED <<self_id, peers, peers_by_id, peers_by_level, next_idx, data, fails>>
    /\ \E r \in Offers :
          tasks' = [tasks EXCEPT ![Runner] = dt_on_reply(tasks[Runner], r, TRUE)]

\* a discover request of the tick that ends in a transport error: logged, and
\* the loop goes on with the next level
dt_error ==
    /\ tasks[Runner].pc = "dt_send"
    /\ fails < MaxFails
    /\ fails' = fails + 1
    /\ UNCHANGED <<self_id, peers, peers_by_id, peers_by_level, next_idx, data>>
    /\ tasks' = [tasks EXCEPT ![Runner] = dt_next(@)]

\* the discover tick calls discover_peer(Some(&id), addr) for the peer offered
dt_call ==
    /\ tasks[Runner].pc = "dt_greet"
    /\ tasks[1].pc = "idle"
    /\ discover_peer_call(1, tasks[Runner].node, tasks[Runner].pid, tasks[Runner].paddr)

\* discover_peer has returned, its result is dropped: the peer offered is
\* the current peer from now on
dt_return ==
    /\ tasks[Runner].pc = "dt_greet"
    /\ tasks[1].op = "discover_peer" /\ tasks[1].pc = "done"
    /\ UNCHANGED <<self_id, peers, peers_by_id, peers_by_level, next_idx, data, fails>>
    /\ LET run == tasks[Runner]
       IN  tasks' = [tasks EXCEPT
              ![1] = Idle,
              ![Runner] = dt_next([run EXCEPT
                             !.cur = Some([id |-> run.pid[1], addr |-> run.paddr])])]

\* ----------------------------------------------------------- content store
\* a change of some routing table or store: the calls that look a tag up
\* note that the network is not the one they started in, the uploads that
\* returned that it is not the one they returned in, and the uploads under
\* way that it changed while they ran
Touch(ts) == [u \in DOMAIN ts |->
                 IF ts[u].op = "fetch" \/ (ts[u].op = "upload" /\ ts[u].pc = "done")
                 THEN [ts[u] EXCEPT !.stable = FALSE]
                 ELSE IF ts[u].op = "upload"
                 THEN [ts[u] EXCEPT !.calm = FALSE] ELSE ts[u]]

\* Node::load_data
load_data(n, tag) == IF tag \in DOMAIN data[n] THEN Some(data[n][tag]) ELSE None

\* Node::save_data: data.entry(tag).or_insert(data) (first the variants that
\* overwrite as HashMap::insert does, and that store nothing)
save_data_overwrite(n, tag, blob) ==
    data' = [data EXCEPT ![n] = (tag :> blob) @@ @]
save_data_drop(n, tag, blob) ==
    UNCHANGED data
save_data(n, tag, blob) ==
    data' = [data EXCEPT ![n] = IF tag \in DOMAIN @ THEN @ ELSE @ @@ (tag :> blob)]

\* the entries of n's routing table strictly closer to tag than the tag `than`
\* (first a variant that takes every entry)
closer_peers_all(n, tag, than) == DOMAIN peers[n]
closer_peers(n, tag, than) ==
    {i \in DOMAIN peers[n] :
        tag_lt(dist_to(peers[n][i].id, tag), dist_to(than, tag))}

\* min_by_key(|peer| peer.id.tag.dist_to(tag)) over the entries `is` of n
min_by_key(n, is, tag) ==
    CHOOSE i \in is :
        \A k \in is : ~tag_lt(dist_to(peers[n][k].id, tag), dist_to(peers[n][i].id, tag))

\* the key Node::recv_upload stores under: Tag::digest(&*upload.data) (first
\* a variant that does not depend on the bytes)
upload_tag_fixed(blob) == from_bytes(0)
upload_tag(blob) == digest(blob)

\* a call of Node::recv_upload at node n: the payload arrives
upload_call(t, n, blob) ==
    /\ Free(t)
    /\ UNCHANGED <<self_id, peers, peers_by_id, peers_by_level, next_idx, data, fails>>
    /\ tasks' = [tasks EXCEPT ![t] =
          [Idle EXCEPT !.op = "upload", !.pc = "upload", !.node = n, !.at = n,
                       !.blob = Some(blob)]]

\* Node::recv_upload at the node the payload has reached: forward it to the
\* closest routed peer strictly closer to the tag than this node, or store it
recv_upload(t) ==
    /\ tasks[t].pc = "upload"
    /\ UNCHANGED <<self_id, peers, peers_by_id, peers_by_level, next_idx>>
    /\ LET n    == tasks[t].at
           blob == tasks[t].blob[1]
           tag  == upload_tag(blob)
           cs   == closer_peers(n, tag, self_id[n])
           ret(r) == [Idle EXCEPT !.op = "upload", !.pc = "done",
                                  !.node = tasks[t].node, !.blob = tasks[t].blob,
                                  !.hops = tasks[t].hops, !.calm = tasks[t].calm,
                                  !.res = r]
       IN  IF cs # {}
           THEN /\ UNCHANGED data
                /\ \/ /\ tasks' = [tasks EXCEPT ![t].at = peers[n][min_by_key(n, cs, tag)].addr,
                                                ![t].hops = @ + 1]
                      /\ UNCHANGED fails
                   \/ /\ fails < MaxFails
                      /\ fails' = fails + 1
                      /\ tasks' = [tasks EXCEPT ![t] = ret([kind |-> "Err", val |-> None])]
           ELSE /\ save_data(n, tag, blob)
                /\ tasks' = [Touch(tasks) EXCEPT ![t] = ret([kind |-> "Ok", val |-> Some(tag)])]
                /\ UNCHANGED fails

\* a direct call of Node::save_data
save_data_call(n, tag, blob) ==
    /\ save_data(n, tag, blob)
    /\ tasks' = Touch(tasks)
    /\ UNCHANGED <<self_id, peers, peers_by_id, peers_by_level, next_idx, fails>>

\* the critical section of an accept_peer that runs at n for node m
peer_joins(n, m) ==
    /\ m # n
    /\ self_id[m] \notin DOMAIN peers_by_id[n]
    /\ accept_insert(n, self_id[m], m)
    /\ tasks' = Touch(tasks)
    /\ UNCHANGED <<self_id, data, fails>>

\* a failed ping of the ping tick at n: remove_peer(idx)
peer_leaves(n, idx) ==
    /\ idx \in DOMAIN peers[n]
    /\ fails < MaxFails
    /\ fails' = fails + 1
    /\ remove_peer(n, idx)
    /\ tasks' = Touch(tasks)
    /\ UNCHANGED <<self_id, next_idx, data>>

\* ------------------------------------------------------------------- lookup
\* LocateResp.result: Ok(Some(data)), Ok(None) or Err((id, addr))
RData(b)       == [kind |-> "data", blob |-> Some(b), next |-> None]
RNone          == [kind |-> "none", blob |-> None, next |-> None]
RNext(id, a)   == [kind |-> "next", blob |-> None, next |-> Some([id |-> id, addr |-> a])]

\* Node::recv_locate (first a variant that never names a closer peer)
recv_locate_nohint(p, tag) ==
    IF load_data(p, tag) # None THEN RData(load_data(p, tag)[1]) ELSE RNone
recv_locate_unfiltered(p, tag) ==
    IF load_data(p, tag) # None THEN RData(load_data(p, tag)[1])
    ELSE IF DOMAIN peers[p] = {} THEN RNone
    ELSE LET e == peers[p][min_by_key(p, DOMAIN peers[p], tag)] IN RNext(e.id, e.addr)
recv_locate(p, tag) ==
    IF load_data(p, tag) # None THEN RData(load_data(p, tag)[1])
    ELSE LET cs == closer_peers(p, tag, self_id[p])
         IN  IF cs = {} THEN RNone
             ELSE LET e == peers[p][min_by_key(p, cs, tag)] IN RNext(e.id, e.addr)

\* the test of Node::fetch_data before it follows a reply's peer (first a
\* variant that follows every peer named)
follows_any(next, cur, tag) == TRUE
follows(next, cur, tag) == tag_lt(dist_to(next, tag), dist_to(cur, tag))

\* Node::fetch_data up to its first request: the local store, then the
\* routed peer closest to the tag (first a variant that reads the local
\* store alone)
\* (`up` is the upload at n that returned tag right before, Idle if none:
\* the lookup notes its bytes and whether a table changed while it ran)
fetch_begin_local(n, tag, up) ==
    [Idle EXCEPT !.op = "fetch", !.pc = "done", !.node = n, !.tag = Some(tag),
                 !.blob = up.blob, !.calm = up.calm,
                 !.res = [kind |-> "Ok", val |-> load_data(n, tag)]]
fetch_begin(n, tag, up) ==
    LET call == [Idle EXCEPT !.op = "fetch", !.node = n, !.tag = Some(tag),
                             !.blob = up.blob, !.calm = up.calm]
    IN  IF load_data(n, tag) # None
        THEN [call EXCEPT !.pc = "done",
                          !.res = [kind |-> "Ok", val |-> load_data(n, tag)]]
        ELSE IF DOMAIN peers[n] # {}
        THEN LET e == peers[n][min_by_key(n, DOMAIN peers[n], tag)]
             IN  [call EXCEPT !.pc = "locate", !.cur = Some(e)]
        ELSE [call EXCEPT !.pc = "done", !.res = [kind |-> "Ok", val |-> None]]

fetch_call(t, n, tag) ==
    /\ Free(t)
    /\ UNCHANGED <<self_id, peers, peers_by_id, peers_by_level, next_idx, data, fails>>
    /\ tasks' = [tasks EXCEPT ![t] = fetch_begin(n, tag, Idle)]

\* Node::fetch_data of the tag that an upload at the same node has just
\* returned, no routing table or store having changed since
round_trip_call(t) ==
    /\ Free(t)
    /\ tasks[t].op = "upload" /\ tasks[t].pc = "done"
    /\ tasks[t].res.kind = "Ok" /\ tasks[t].stable
    /\ UNCHANGED <<self_id, peers, peers_by_id, peers_by_level, next_idx, data, fails>>
    /\ tasks' = [tasks EXCEPT ![t] =
          fetch_begin(tasks[t].node, tasks[t].res.val[1], tasks[t])]

\* Node::fetch_data, one turn of its loop on the reply r of the peer asked;
\* `lie` records that the reply was not computed by recv_locate.  The result
\* kind "Liar" is the Ok(None) of the branch that refuses a peer no closer.
\* (first a variant whose refusal of a peer no closer is an error)
on_reply_liar_err(t, r, lie) ==
    LET tag  == tasks[t].tag[1]
        cur  == tasks[t].cur[1]
        sent == [tasks[t] EXCEPT !.hops = @ + 1, !.seen = @ \cup {cur.id},
                                 !.lied = @ \/ lie]
        ret(x) == [Idle EXCEPT !.op = "fetch", !.pc = "done", !.node = sent.node,
                               !.tag = sent.tag, !.hops = sent.hops, !.blob = sent.blob,
                               !.calm = sent.calm,
                               !.lied = sent.lied, !.stable = sent.stable, !.res = x]
    IN  IF r.kind = "data" THEN ret([kind |-> "Ok", val |-> r.blob])
        ELSE IF r.kind = "none" THEN ret([kind |-> "Ok", val |-> None])
        ELSE IF follows(r.next[1].id, cur.id, tag)
             THEN [sent EXCEPT !.cur = r.next]
             ELSE ret([kind |-> "Err", val |-> None])
on_reply(t, r, lie) ==
    LET tag  == tasks[t].tag[1]
        cur  == tasks[t].cur[1]
        sent == [tasks[t] EXCEPT !.hops = @ + 1, !.seen = @ \cup {cur.id},
                                 !.lied = @ \/ lie]
        ret(x) == [Idle EXCEPT !.op = "fetch", !.pc = "done", !.node = sent.node,
                               !.tag = sent.tag, !.hops = sent.hops, !.blob = sent.blob,
                               !.calm = sent.calm,
                               !.lied = sent.lied, !.stable = sent.stable, !.res = x]
    IN  IF r.kind = "data" THEN ret([kind |-> "Ok", val |-> r.blob])
        ELSE IF r.kind = "none" THEN ret([kind |-> "Ok", val |-> None])
        ELSE IF follows(r.next[1].id, cur.id, tag)
             THEN [sent EXCEPT !.cur = r.next]
             ELSE ret([kind |-> "Liar", val |-> None])

\* a locate request answered by a node that runs recv_locate (first a
\* variant in which the node that looks the tag up keeps the bytes it got)
locate_caching(t) ==
    /\ tasks[t].pc = "locate"
    /\ UNCHANGED <<self_id, peers, peers_by_id, peers_by_level, next_idx, fails>>
    /\ LET r == recv_locate(tasks[t].cur[1].addr, tasks[t].tag[1])
       IN  /\ tasks' = [tasks EXCEPT ![t] = on_reply(t, r, FALSE)]
           /\ IF r.kind = "data"
              THEN save_data(tasks[t].node, tasks[t].tag[1], r.blob[1])
              ELSE UNCHANGED data
locate(t) ==
    /\ tasks[t].pc = "locate"
    /\ UNCHANGED <<self_id, peers, peers_by_id, peers_by_level, next_idx, data, fails>>
    /\ tasks' = [tasks EXCEPT ![t] =
          on_reply(t, recv_locate(tasks[t].cur[1].addr, tasks[t].tag[1]), FALSE)]

\* the replies a peer that does not run this code can send to the call in t:
\* no data, any blob, or any id of the network with that node's address or
\* with the replying peer's own address
Replies(t) ==
    {RNone} \cup {RData(b) : b \in Data}
            \cup {RNext(self_id[m], m) : m \in Nodes}
            \cup {RNext(self_id[m], tasks[t].cur[1].addr) : m \in Nodes}

\* a locate request answered by a peer that does not run this code
locate_any(t) ==
    /\ tasks[t].pc = "locate"
    /\ UNCHANGED <<self_id, peers, peers_by_id, peers_by_level, next_idx, data, fails>>
    /\ \E r \in Replies(t) : tasks' = [tasks EXCEPT ![t] = on_reply(t, r, TRUE)]

\* a locate request that ends in a transport error
locate_error(t) ==
    /\ tasks[t].pc = "locate"
    /\ fails < MaxFails
    /\ fails' = fails + 1
    /\ UNCHANGED <<self_id, peers, peers_by_id, peers_by_level, next_idx, data>>
    /\ tasks' = [tasks EXCEPT ![t] =
          [Idle EXCEPT !.op = "fetch", !.pc = "done", !.node = tasks[t].node,
                       !.tag = tasks[t].tag, !.hops = tasks[t].hops + 1,
                       !.blob = tasks[t].blob, !.calm = tasks[t].calm,
                       !.lied = tasks[t].lied, !.stable = tasks[t].stable,
                       !.res = [kind |-> "Err", val |-> None]]]

\* The (node, peer) pairs whose accept_peer completes in the data
\* specifications.
Links == {<<2, NumNodes>>, <<2, 1>>, <<NumNodes, 1>>, <<1, NumNodes>>}

\* Lookups and uploads, one call at a time, while routing tables change.
\* Blob 0 is uploaded; its tag and the tag of a blob nobody stores are looked up.
NextFetch ==
    \/ \E n \in Nodes : upload_call(1, n, 0)
    \/ recv_upload(1)
    \/ \E n \in Nodes, b \in Data : fetch_call(1, n, digest(b))
    \/ locate(1)
    \/ locate_any(1)
    \/ locate_error(1)
    \/ \E l \in Links : peer_joins(l[1], l[2])
    \/ \E n \in Nodes, i \in 0..(MaxIdx - 1) : peer_leaves(n, i)
SpecFetch == InitState /\ [][NextFetch]_vars

\* Node::recv_ping: the pong carries nothing
recv_ping_call(t, p) ==
    /\ Free(t)
    /\ UNCHANGED <<self_id, peers, peers_by_id, peers_by_level, next_idx, data, fails>>
    /\ tasks' = [tasks EXCEPT ![t] =
          [Idle EXCEPT !.op = "ping", !.pc = "done", !.node = p,
                       !.res = [kind |-> "Pong", val |-> None]]]

\* Node::load_data called for a download at n
load_data_call(t, n, tag) ==
    /\ Free(t)
    /\ UNCHANGED <<self_id, peers, peers_by_id, peers_by_level, next_idx, data, fails>>
    /\ tasks' = [tasks EXCEPT ![t] =
          [Idle EXCEPT !.op = "load_data", !.pc = "done", !.node = n,
                       !.tag = Some(tag),
                       !.res = [kind |-> "Ok", val |-> load_data(n, tag)]]]

\* Node::recv_locate called for a locate request that reached p
recv_locate_call(t, p, tag) ==
    /\ Free(t)
    /\ UNCHANGED <<self_id, peers, peers_by_id, peers_by_level, next_idx, data, fails>>
    /\ tasks' = [tasks EXCEPT ![t] =
          [Idle EXCEPT !.op = "locate", !.pc = "done", !.node = p,
                       !.tag = Some(tag),
                       !.res = [kind |-> recv_locate(p, tag).kind,
                                val  |-> recv_locate(p, tag).blob
                                            \o recv_locate(p, tag).next]]]

\* The handlers and calls that read: pings, discover and locate requests,
\* store reads and lookups at any node, while node 1 takes an upload and
\* routing tables change.
NextRead ==
    \/ \E p \in Nodes : recv_ping_call(1, p)
    \/ \E p \in Nodes, m \in Nodes : recv_discover_call(1, p, self_id[m], TopLevel)
    \/ \E n \in Nodes, b \in Data : load_data_call(1, n, digest(b))
    \/ \E p \in Nodes, b \in Data : recv_locate_call(1, p, digest(b))
    \/ \E n \in Nodes, b \in Data : fetch_call(1, n, digest(b))
    \/ locate(1)
    \/ locate_any(1)
    \/ locate_error(1)
    \/ upload_call(1, 1, 0)
    \/ recv_upload(1)
    \/ \E l \in Links : peer_joins(l[1], l[2])
    \/ \E n \in Nodes, i \in 0..(MaxIdx - 1) : peer_leaves(n, i)
SpecRead == InitState /\ [][NextRead]_vars

\* Concurrent uploads and direct save_data calls, with any tag and blob, at
\* node 1 and its peer.
SaveNodes == {1, NumNodes}
NextSave ==
    \/ \E t \in Tasks, n \in SaveNodes, b \in Data : upload_call(t, n, b)
    \/ \E t \in Tasks : recv_upload(t)
    \/ \E n \in SaveNodes, b \in Data, c \in Data : save_data_call(n, digest(c), b)
    \/ peer_joins(1, NumNodes)
SpecSave == InitState /\ [][NextSave]_vars

\* Uploads and lookups answered by recv_locate, one call at a time, while
\* routing tables change: blob 0 is uploaded at any node, and the tag an
\* upload returned, or the tag of the blob that nobody stores, is looked up.
NextRound ==
    \/ \E n \in Nodes : upload_call(1, n, 0)
    \/ recv_upload(1)
    \/ round_trip_call(1)
    \/ \E n \in Nodes : fetch_call(1, n, digest(MaxData - 1))
    \/ locate(1)
    \/ locate_error(1)
    \/ \E l \in Links : peer_joins(l[1], l[2])
    \/ \E n \in Nodes, i \in 0..(MaxIdx - 1) : peer_leaves(n, i)
SpecRound == InitState /\ [][NextRound]_vars

\* A larger network, of more nodes than a tag has bits plus one, for the
\* length of a walk: Node::new at each of its nodes
ChainNodes == 1..NumChain
ChainIds   == { [n \in ChainNodes |-> from_bytes(s[n])] : s \in IdSeeds }
InitChain ==
    /\ self_id \in ChainIds
    /\ peers = [n \in ChainNodes |-> << >>]
    /\ peers_by_id = [n \in ChainNodes |-> << >>]
    /\ peers_by_level = [n \in ChainNodes |-> [l \in Levels |-> << >>]]
    /\ next_idx = [n \in ChainNodes |-> 0]
    /\ data = [n \in ChainNodes |-> << >>]
    /\ tasks = [t \in Tasks |-> Idle]
    /\ fails = 0

\* how many nodes of the larger network are strictly closer to tag than n
Rank(n, tag) ==
    Cardinality({m \in ChainNodes :
        tag_lt(dist_to(self_id[m], tag), dist_to(self_id[n], tag))})

\* The (node, peer) pairs whose accept_peer completes in the larger network:
\* every node accepts the next node closer to digest(0), and the farthest
\* node but one accepts the farthest.
ChainLinks ==
    {l \in ChainNodes \X ChainNodes :
        \/ Rank(l[1], digest(0)) - Rank(l[2], digest(0)) = 1
        \/ /\ Rank(l[2], digest(0)) = NumChain - 1
           /\ Rank(l[1], digest(0)) = NumChain - 2}

\* Lookups of digest(0) from any node of the larger network, answered by
\* recv_locate or a transport error, while routing tables change.
NextChain ==
    \/ \E n \in ChainNodes : fetch_call(1, n, digest(0))
    \/ locate(1)
    \/ locate_error(1)
    \/ \E l \in ChainLinks : peer_joins(l[1], l[2])
    \/ \E n \in ChainNodes, i \in 0..(MaxIdx - 1) : peer_leaves(n, i)
SpecChain == InitChain /\ [][NextChain]_vars

\* Lookups alone, while routing tables change and node 1 takes an upload.
\* Every locate request gets a reply or a transport error.
NextWalk ==
    \/ \E n \in Nodes, b \in Data : fetch_call(1, n, digest(b))
    \/ locate(1)
    \/ locate_any(1)
    \/ locate_error(1)
    \/ upload_call(1, 1, 0)
    \/ recv_upload(1)
    \/ \E l \in Links : peer_joins(l[1], l[2])
    \/ \E n \in Nodes, i \in 0..(MaxIdx - 1) : peer_leaves(n, i)
SpecWalk == /\ InitState /\ [][NextWalk]_vars
            /\ WF_vars(locate(1) \/ locate_any(1) \/ locate_error(1))

\* Concurrent ping ticks at node 1 while it accepts and re-accepts peers,
\* with one transport error more than elsewhere, so that two probes of one
\* snapshot entry can both fail.
PingFails == MaxFails + 1
PingPeers == {2, 3}
NextPing ==
    \/ \E t \in Tasks : ping_tick(t, 1)
    \/ \E t \in Tasks : ping_tick_probe(t, PingFails)
    \/ \E m \in PingPeers : peer_joins(1, m)
SpecPing == InitState /\ [][NextPing]_vars

\* The lists of initial addresses a node is configured with
InitialPeers == UNION {[1..k -> Nodes] : k \in 0..MaxInitial}

\* Node::new and the start of run() at node 1, the other nodes running
\* their handlers only
InitRun ==
    /\ self_id \in NodeIds
    /\ peers = [n \in Nodes |-> << >>]
    /\ peers_by_id = [n \in Nodes |-> << >>]
    /\ peers_by_level = [n \in Nodes |-> [l \in Levels |-> << >>]]
    /\ next_idx = [n \in Nodes |-> 0]
    /\ data = [n \in Nodes |-> << >>]
    /\ \E ips \in InitialPeers :
          tasks = [t \in Tasks |-> IF t = Runner THEN run_start(1, ips) ELSE Idle]
    /\ fails = 0

\* The (node, peer) pairs whose accept_peer completes at the other nodes
\* while node 1 runs
RunLinks == {<<2, 1>>, <<2, 3>>, <<3, 2>>}

\* run() at node 1 up to its ping ticks, the greeted nodes answering, while
\* other nodes accept peers.
NextRun ==
    \/ boot_call
    \/ boot_return
    \/ recv_greet(1)
    \/ recv_greet_refuse(1)
    \/ accept_probe(1)
    \/ accept_done(1)
    \/ run_ping_tick
    \/ ping_tick_step(1)
    \/ \E l \in RunLinks : peer_joins(l[1], l[2])
SpecRun == InitRun /\ [][NextRun]_vars

\* the steps of run()'s bootstrap loop and of the greets it sends: the call
\* is polled until it returns and every request it sends is answered
BootSteps ==
    \/ boot_call
    \/ boot_return
    \/ recv_greet(1)
    \/ recv_greet_refuse(1)
    \/ accept_probe(1)
    \/ accept_done(1)
SpecRunFair == SpecRun /\ WF_vars(BootSteps)

\* run() at node 1 with its discover ticks, whose requests are answered by
\* recv_discover, by any reply, or not at all.
NextTick ==
    \/ NextRun
    \/ discover_tick
    \/ dt_reply
    \/ dt_reply_any
    \/ dt_error
    \/ dt_call
    \/ dt_return
SpecTick == InitRun /\ [][NextTick]_vars

\* Tag::dist_to and Tag::level applied to the ids a node may meet: each call
\* measures one id `pid` from the id of the node `node`
InitLevel ==
    /\ InitState!1 /\ InitState!2 /\ InitState!3 /\ InitState!4
    /\ InitState!5 /\ InitState!6 /\ InitState!8
    /\ \E n \in Nodes :
          tasks \in [Tasks -> {[Idle EXCEPT !.op = "level", !.pc = "dist", !.node = n,
                                            !.pid = Some(id)] : id \in Tag}]

\* self_id.tag.dist_to(id.tag)
dist_to_step(t) ==
    /\ tasks[t].pc = "dist"
    /\ tasks' = [tasks EXCEPT ![t] =
                    [@ EXCEPT !.pc = "level",
                              !.cur = Some(dist_to(self_id[tasks[t].node],
                                                   tasks[t].pid[1]))]]
    /\ UNCHANGED <<self_id, peers, peers_by_id, peers_by_level, next_idx, data, fails>>

\* .level()
level_step(t) ==
    /\ tasks[t].pc = "level"
    /\ tasks' = [tasks EXCEPT ![t] =
                    [@ EXCEPT !.pc = "done", !.max_level = level(tasks[t].cur[1])]]
    /\ UNCHANGED <<self_id, peers, peers_by_id, peers_by_level, next_idx, data, fails>>

NextLevel ==
    \/ \E t \in Tasks : dist_to_step(t)
    \/ \E t \in Tasks : level_step(t)
SpecLevel == InitLevel /\ [][NextLevel]_vars

\* --------------------------------------------------------------- properties
Range(q) == {q[k] : k \in 1..Len(q)}
Occurrences(n, idx) ==
    Cardinality({<<l, k>> \in Levels \X (1..MaxIdx) :
                    k <= Len(peers_by_level[n][l]) /\ peers_by_level[n][l][k] = idx})
InsertPcs == {"rg_insert", "dp_insert", "ap_insert"}

\* C1: in every reachable state no node's own PublicId is a key of its
\* peers_by_id or the id of an entry of its peers.
C1_OwnIdAbsent ==
    \A n \in Nodes :
        /\ self_id[n] \notin DOMAIN peers_by_id[n]
        /\ \A i \in DOMAIN peers[n] : peers[n][i].id # self_id[n]

\* C1 witness: a node with a routed peer was asked to accept its own id (a
\* direct accept_peer call, or a greet sent to its own address) and refused.
C1_Witness ==
    /\ \E t \in Tasks : /\ tasks[t].pc = "rg_refuse"
                        /\ tasks[t].addr = tasks[t].node
                        /\ peers[tasks[t].node] # << >>
    /\ \E t \in Tasks : /\ tasks[t].op = "accept_peer"
                        /\ tasks[t].pc = "done"
                        /\ tasks[t].res.kind = "false"

\* C2: the three indices of every routing table agree: every (id, idx) of
\* peers_by_id has peers[idx].id = id and idx in the bucket of id's level;
\* every key of peers is the value of its id in peers_by_id and occurs once
\* in the buckets; every idx in a bucket is a key of peers.
C2_IndicesAgree ==
    \A n \in Nodes :
        /\ \A id \in DOMAIN peers_by_id[n] :
              LET idx == peers_by_id[n][id]
              IN  /\ idx \in DOMAIN peers[n]
                  /\ peers[n][idx].id = id
                  /\ idx \in Range(peers_by_level[n][level_of(n, id)])
        /\ \A idx \in DOMAIN peers[n] :
              /\ peers[n][idx].id \in DOMAIN peers_by_id[n]
              /\ peers_by_id[n][peers[n][idx].id] = idx
              /\ Occurrences(n, idx) = 1
        /\ \A l \in Levels : Range(peers_by_level[n][l]) \subseteq DOMAIN peers[n]

\* C2 witness: a node that has lost a peer to remove_peer and still routes
\* one, while an accept_peer of that node is between its probe and its insert.
C2_Witness ==
    \E n \in Nodes :
        /\ peers[n] # << >>
        /\ Cardinality(DOMAIN peers[n]) < next_idx[n]
        /\ \E t \in Tasks : tasks[t].pc \in InsertPcs /\ tasks[t].at = n

\* C3: every bucket of every routing table holds at most MAX_LEVEL_PEERS
\* peers.
C3_BucketBound ==
    \A n \in Nodes, l \in Levels : Len(peers_by_level[n][l]) <= MAX_LEVEL_PEERS

\* C4: in every reachable state every entry (tag, data) of every content
\* store has digest(data) = tag.
C4_StoreDigest ==
    \A n \in Nodes : \A tag \in DOMAIN data[n] : digest(data[n][tag]) = tag

\* C4 witness: a lookup has returned bytes that an upload stored at another
\* node than the one that looks them up.
C4_Witness ==
    \E t \in Tasks :
        /\ tasks[t].op = "fetch" /\ tasks[t].pc = "done"
        /\ tasks[t].res.kind = "Ok" /\ tasks[t].res.val # None
        /\ ~tasks[t].lied /\ tasks[t].hops >= 1
        /\ tasks[t].tag[1] \notin DOMAIN data[tasks[t].node]

\* C5: the content store is write-once and monotone: no step removes an
\* entry of a store or changes its bytes.
C5_WriteOnce ==
    [][\A n \in Nodes : \A tag \in DOMAIN data[n] :
          tag \in DOMAIN data'[n] /\ data'[n][tag] = data[n][tag]]_vars

\* C5 witness: an upload has returned Ok(tag) although every store that holds
\* tag holds other bytes: its save met an entry and left the first bytes.
C5_Witness ==
    \E t \in Tasks :
        /\ tasks[t].op = "upload" /\ tasks[t].pc = "done" /\ tasks[t].res.kind = "Ok"
        /\ \E n \in Nodes : tasks[t].res.val[1] \in DOMAIN data[n]
        /\ \A n \in Nodes : tasks[t].res.val[1] \in DOMAIN data[n]
                               => data[n][tasks[t].res.val[1]] # tasks[t].blob[1]

\* the descent of a lookup walk: the peer about to be asked is strictly closer
\* to the tag than every peer asked before, no id is asked twice, and the
\* walk has sent at most as many requests as there are ids
StrictDescent ==
    \A t \in Tasks :
        /\ tasks[t].pc = "locate" =>
              /\ \A s \in tasks[t].seen :
                    tag_lt(dist_to(tasks[t].cur[1].id, tasks[t].tag[1]),
                           dist_to(s, tasks[t].tag[1]))
              /\ tasks[t].cur[1].id \notin tasks[t].seen
              /\ Cardinality(tasks[t].seen) = tasks[t].hops
        /\ tasks[t].op = "fetch" => tasks[t].hops <= Cardinality({self_id[m] : m \in Nodes})

Holds(n, tag) == tag \in DOMAIN data[n]

\* the nodes reached from the nodes S over routed peers that each are
\* strictly closer to tag than the node that routes them
RECURSIVE DescReach(_, _, _)
DescReach(S, tag, k) ==
    IF k = 0 THEN S
    ELSE DescReach(S \cup {peers[v][i].addr : <<v, i>> \in
                              {<<v, i>> \in S \X (0..(MaxIdx - 1)) :
                                  /\ i \in DOMAIN peers[v]
                                  /\ tag_lt(dist_to(peers[v][i].id, tag),
                                            dist_to(self_id[v], tag))}},
                   tag, k - 1)

\* whether the greedy route from p ends at a node that holds tag: a node
\* that lacks it hands over to its routed peer closest to tag among those
\* strictly closer than itself
RECURSIVE GreedyFrom(_, _, _)
GreedyFrom(p, tag, k) ==
    IF Holds(p, tag) THEN TRUE
    ELSE IF k = 0 THEN FALSE
    ELSE LET cs == {i \in DOMAIN peers[p] :
                       tag_lt(dist_to(peers[p][i].id, tag), dist_to(self_id[p], tag))}
         IN  /\ cs # {}
             /\ \E i \in cs :
                   /\ \A j \in cs : ~tag_lt(dist_to(peers[p][j].id, tag),
                                            dist_to(peers[p][i].id, tag))
                   /\ GreedyFrom(peers[p][i].addr, tag, k - 1)

\* the greedy route of a lookup at n: n's own store, then n's routed peer
\* closest to tag, then the greedy route from there
GreedyFinds(n, tag) ==
    \/ Holds(n, tag)
    \/ \E i \in DOMAIN peers[n] :
          /\ \A j \in DOMAIN peers[n] : ~tag_lt(dist_to(peers[n][j].id, tag),
                                                dist_to(peers[n][i].id, tag))
          /\ GreedyFrom(peers[n][i].addr, tag, NumNodes)

\* a lookup that returned in the network it started in, answered only by
\* recv_locate and with no transport error
HonestDone(t) ==
    /\ tasks[t].op = "fetch" /\ tasks[t].pc = "done"
    /\ tasks[t].stable /\ ~tasks[t].lied /\ tasks[t].res.kind # "Err"

ReturnsBytes(t) ==
    /\ tasks[t].res.kind = "Ok" /\ tasks[t].res.val # None
    /\ digest(tasks[t].res.val[1]) = tasks[t].tag[1]

\* C7 as claimed: if some node that holds T is reached from the querier by
\* a strictly descending path of routed peers, a lookup of T answered by
\* honest and responsive peers returns Some(bytes) with digest(bytes) = T.
C7_DescendingPathFound ==
    \A t \in Tasks :
        (HonestDone(t) /\ \E h \in DescReach({tasks[t].node}, tasks[t].tag[1], NumNodes) :
                              Holds(h, tasks[t].tag[1]))
            => ReturnsBytes(t)

\* C7 amended: if the greedy route from the querier (its routed peer closest
\* to T, then from each hop that lacks T the hop's routed peer closest to T
\* among those strictly closer than the hop) ends at a node that holds T, a
\* lookup of T answered by honest and responsive peers returns Some(bytes)
\* with digest(bytes) = T.
C7_GreedyRouteFound ==
    \A t \in Tasks :
        (HonestDone(t) /\ GreedyFinds(tasks[t].node, tasks[t].tag[1]))
            => ReturnsBytes(t)

\* C7 witness: an honest lookup that asked two peers in turn and returned
\* the bytes of the second.
C7_Witness ==
    \E t \in Tasks :
        /\ HonestDone(t) /\ tasks[t].hops >= 2 /\ ReturnsBytes(t)
        /\ GreedyFinds(tasks[t].node, tasks[t].tag[1])

\* C8: a lookup never returns bytes whose digest differs from the tag.
C8_Integrity ==
    \A t \in Tasks :
        (tasks[t].op = "fetch" /\ tasks[t].pc = "done"
            /\ tasks[t].res.kind = "Ok" /\ tasks[t].res.val # None)
        => digest(tasks[t].res.val[1]) = tasks[t].tag[1]

\* C9: an upload that returned Ok returned digest(data), and some node of
\* the network holds (digest(data), data).
C9_UploadStored ==
    \A t \in Tasks :
        (tasks[t].op = "upload" /\ tasks[t].pc = "done" /\ tasks[t].res.kind = "Ok")
        => /\ tasks[t].res.val = Some(digest(tasks[t].blob[1]))
           /\ \E n \in Nodes :
                 /\ Holds(n, digest(tasks[t].blob[1]))
                 /\ data[n][digest(tasks[t].blob[1])] = tasks[t].blob[1]

\* C9 witness: an upload returned Ok after its payload was passed on, and
\* the node it was sent to does not hold the bytes.
C9_Witness ==
    \E t \in Tasks :
        /\ tasks[t].op = "upload" /\ tasks[t].pc = "done" /\ tasks[t].res.kind = "Ok"
        /\ tasks[t].hops >= 1
        /\ ~Holds(tasks[t].node, digest(tasks[t].blob[1]))

\* C10: the inbound upload handler stores (digest(data), data) in the store
\* of the node that received the upload and returns Ok without sending a
\* message.
C10_StoredWhereReceived ==
    \A t \in Tasks :
        (tasks[t].op = "upload" /\ tasks[t].pc = "done" /\ tasks[t].res.kind = "Ok")
        => /\ tasks[t].hops = 0
           /\ Holds(tasks[t].node, digest(tasks[t].blob[1]))
           /\ data[tasks[t].node][digest(tasks[t].blob[1])] = tasks[t].blob[1]

\* C11: the greet handler answers Ok(self.id) only after can_accept_peer
\* held for the sender and accept_peer returned true, and then the sender is
\* in the handler's routing table; it turns to its refusal when
\* can_accept_peer does not hold or accept_peer returned false; a refusal
\* names the address of a peer of the routing table, and names none only
\* when the table is empty.
C11_GreetContract ==
    [][\A t \in Tasks :
          LET p == tasks[t].addr
              n == tasks[t].node
          IN  /\ (tasks[t].pc = "greet" /\ tasks'[t].pc = "rg_accept")
                    => can_accept_peer(p, self_id[n])
              /\ (tasks[t].pc = "greet" /\ tasks'[t].pc = "rg_refuse")
                    => ~can_accept_peer(p, self_id[n])
              /\ (tasks[t].pc = "rg_accept" /\ tasks'[t].pc = "rg_insert")
                    => accept_guard(p, self_id[n])
              /\ (tasks[t].pc = "rg_insert" /\ tasks'[t].pc # "rg_insert")
                    => /\ self_id[n] \in DOMAIN peers_by_id'[p]
                       /\ peers'[p][peers_by_id'[p][self_id[n]]].id = self_id[n]
              /\ (tasks[t].pc = "rg_refuse" /\ tasks'[t].pc = "done")
                    => /\ tasks'[t].res.kind = "Err"
                       /\ tasks'[t].res.val = None => DOMAIN peers[p] = {}
                       /\ tasks'[t].res.val # None =>
                             \E i \in DOMAIN peers[p] :
                                 peers[p][i].addr = tasks'[t].res.val[1]]_vars

\* C11 witness: a greet was refused with the address of a routed peer while
\* the greeter is in some routing table through an earlier greet.
C11_Witness ==
    /\ \E t \in Tasks : /\ tasks[t].op = "discover_peer" /\ tasks[t].pc = "done"
                        /\ tasks[t].res.kind = "Err" /\ tasks[t].res.val # None
    /\ \E n \in Nodes : self_id[1] \in DOMAIN peers_by_id[n]

\* C12: the discover handler answers Some((p.id, p.addr)) only for a peer p
\* of its routing table whose tag is not the target and whose distance to
\* the target has a level of at most max_level, never its own id, and it
\* answers None exactly when no routed peer passes both tests.
C12_DiscoverContract ==
    \A t \in Tasks :
        (tasks[t].op = "discover" /\ tasks[t].pc = "done") =>
            LET p      == tasks[t].node
                target == tasks[t].tag[1]
                r      == tasks[t].res.val
                fits(e) == /\ e.id # target
                           /\ level(dist_to(e.id, target)) <= tasks[t].max_level
            IN  /\ r # None => /\ \E i \in DOMAIN peers[p] : peers[p][i] = r[1]
                               /\ fits(r[1])
                               /\ r[1].id # self_id[p]
                /\ r = None <=> ~\E i \in DOMAIN peers[p] : fits(peers[p][i])

\* C12 witness: the handler named a peer while it routes the target itself
\* and another peer too far from the target for the level asked.
C12_Witness ==
    \E t \in Tasks :
        /\ tasks[t].op = "discover" /\ tasks[t].pc = "done"
        /\ tasks[t].res.val # None
        /\ tasks[t].tag[1] \in DOMAIN peers_by_id[tasks[t].node]
        /\ \E i \in DOMAIN peers[tasks[t].node] :
              level(dist_to(peers[tasks[t].node][i].id, tasks[t].tag[1]))
                  > tasks[t].max_level

\* C13: the locate handler answers with the data iff the tag is in its
\* store; otherwise, if some routed peer is strictly closer to the tag than
\* the handler's node, it answers Err with the closest such peer; otherwise
\* it answers that it has nothing.  A peer it names is strictly closer to
\* the tag than the node itself.
C13_LocateContract ==
    \A p \in Nodes : \A k \in 0..(ByteVals ^ TagBytes - 1) :
        LET tag == from_bytes(k)
            r   == recv_locate(p, tag)
            own == dist_to(self_id[p], tag)
            near == {i \in DOMAIN peers[p] : tag_lt(dist_to(peers[p][i].id, tag), own)}
        IN  /\ r.kind = "data" <=> tag \in DOMAIN data[p]
            /\ r.kind = "data" => r.blob = Some(data[p][tag])
            /\ r.kind = "next" <=> (tag \notin DOMAIN data[p] /\ near # {})
            /\ r.kind = "next" =>
                  /\ tag_lt(dist_to(r.next[1].id, tag), own)
                  /\ \E i \in near : peers[p][i] = r.next[1]
                  /\ \A i \in near : ~tag_lt(dist_to(peers[p][i].id, tag),
                                             dist_to(r.next[1].id, tag))
            /\ r.kind = "none" <=> (tag \notin DOMAIN data[p] /\ near = {})

\* C13 witness: a lookup has been answered by a handler that named a peer and
\* goes on to that peer, while another handler that routes a peer would
\* answer that it has nothing, its peer being no closer to the tag.
C13_Witness ==
    \E t \in Tasks :
        /\ tasks[t].pc = "locate" /\ ~tasks[t].lied /\ tasks[t].hops >= 1
        /\ \E p \in Nodes : /\ self_id[p] \in tasks[t].seen
                            /\ recv_locate(p, tasks[t].tag[1]).kind = "next"
        /\ \E q \in Nodes : /\ DOMAIN peers[q] # {}
                            /\ recv_locate(q, tasks[t].tag[1]).kind = "none"

\* C14: can_accept_peer(id) is true iff id is not the node's own id, no
\* routed peer has that id, and fewer than MAX_LEVEL_PEERS routed peers are
\* at the level of id; the code that evaluates it changes no routing table
\* and no store.
C14_CanAcceptContract ==
    /\ [](\A n \in Nodes : \A m \in Nodes :
            LET id == self_id[m]
            IN  can_accept_peer(n, id) <=>
                   /\ id # self_id[n]
                   /\ ~\E i \in DOMAIN peers[n] : peers[n][i].id = id
                   /\ Cardinality({i \in DOMAIN peers[n] :
                         level(dist_to(self_id[n], peers[n][i].id))
                            = level(dist_to(self_id[n], id))}) < MAX_LEVEL_PEERS)
    /\ [][\A t \in Tasks :
             (tasks'[t].pc \in {"rg_accept", "rg_refuse"} /\ tasks[t].pc = "greet")
                => UNCHANGED <<peers, peers_by_id, peers_by_level, next_idx, data>>]_vars

\* C14 witness: a greet was turned down by can_accept_peer although the
\* sender is neither the node itself nor known to it: its bucket is full.
C14_Witness ==
    \E t \in Tasks :
        /\ tasks[t].pc = "rg_refuse"
        /\ tasks[t].node # tasks[t].addr
        /\ self_id[tasks[t].node] \notin DOMAIN peers_by_id[tasks[t].addr]
        /\ ~can_accept_peer(tasks[t].addr, self_id[tasks[t].node])

\* C15: accept_peer(id, addr) returns true exactly when a peer with that id
\* is in the routing table after the call, whether the call inserted it or
\* found it there; when it returns false the routing table is as it was.
C15_AcceptReturn ==
    [][\A t \in Tasks :
          (tasks[t].op = "accept_peer" /\ tasks[t].pc # "done" /\ tasks'[t].pc = "done")
             => /\ tasks'[t].res.kind = "true"
                    <=> tasks[t].pid[1] \in DOMAIN peers_by_id'[tasks[t].at]
                /\ tasks'[t].res.kind = "false"
                    => UNCHANGED <<peers, peers_by_id, peers_by_level>>]_vars

\* C16: discover_peer(supposed_id, addr) sends its greet only when no
\* supposed id is given or can_accept_peer holds for it, and otherwise
\* returns Err(None) at once; a transport failure gives Err(None); a greet
\* that is refused gives Err; a reply Ok(id) with another id than the
\* supposed one gives Err(None) and leaves the caller's routing table as it
\* was; accept_peer(id, addr) is attempted only on a reply Ok(id) with no or
\* the same supposed id, with the replied id and the greeted address.
C16_DiscoverPeerContract ==
    [][\A t \in Tasks :
          LET n == tasks[t].node
              p == tasks[t].addr
              mine == <<peers[n], peers_by_id[n], peers_by_level[n]>>
          IN  /\ (tasks[t].pc \in {"idle", "done"} /\ tasks'[t].pc = "greet")
                    => \/ tasks'[t].sid = None
                       \/ can_accept_peer(tasks'[t].node, tasks'[t].sid[1])
              /\ (tasks[t].pc \in {"idle", "done"} /\ tasks'[t].op = "discover_peer"
                     /\ tasks'[t].pc = "done" /\ tasks'[t] # tasks[t])
                    => /\ tasks'[t].res = [kind |-> "Err", val |-> None]
                       /\ UNCHANGED <<peers, peers_by_id, peers_by_level>>
              /\ (tasks[t].pc = "rg_refuse" /\ tasks'[t].pc = "done")
                    => /\ tasks'[t].res.kind = "Err"
                       /\ UNCHANGED <<peers, peers_by_id, peers_by_level>>
              /\ (tasks[t].pc = "rg_insert" /\ tasks'[t].pc = "done")
                    => /\ tasks[t].sid # None /\ tasks[t].sid[1] # self_id[p]
                       /\ tasks'[t].res = [kind |-> "Err", val |-> None]
                       /\ mine' = mine
              /\ (tasks[t].pc = "rg_insert" /\ tasks'[t].pc = "dp_accept")
                    => /\ tasks[t].sid = None \/ tasks[t].sid[1] = self_id[p]
                       /\ tasks'[t].at = n /\ tasks'[t].paddr = p
                       /\ tasks'[t].pid = Some(self_id[p])
              /\ tasks'[t].pc = "dp_accept" => tasks[t].pc \in {"rg_insert", "dp_accept"}]_vars

\* C16 witness: a discover_peer call ended on a reply with another id than
\* the supposed one: the greeted node routes the caller, the caller does not
\* route the greeted node.
C16_Witness ==
    \E t \in Tasks :
        /\ tasks[t].op = "discover_peer" /\ tasks[t].pc = "done"
        /\ tasks[t].res = [kind |-> "Err", val |-> None]
        /\ tasks[t].sid # None /\ tasks[t].sid[1] # self_id[tasks[t].addr]
        /\ self_id[tasks[t].node] \in DOMAIN peers_by_id[tasks[t].addr]
        /\ self_id[tasks[t].addr] \notin DOMAIN peers_by_id[tasks[t].node]

\* C17: when discover_peer(None, A.addr) of node B returns Ok after A
\* accepted B and B's accept_peer of A went through, both probes answered, A
\* routes B, B routes A, and the bucket of each for the other holds at most
\* MAX_LEVEL_PEERS peers.
C17_MutualPeering ==
    [][\A t \in Tasks :
          (tasks[t].pc = "dp_insert" /\ tasks[t].sid = None /\ tasks'[t].pc = "done")
             => LET b == tasks[t].node
                    a == tasks[t].addr
                IN  /\ self_id[b] \in DOMAIN peers_by_id'[a]
                    /\ self_id[a] \in DOMAIN peers_by_id'[b]
                    /\ Len(peers_by_level'[a][level_of(a, self_id[b])]) <= MAX_LEVEL_PEERS
                    /\ Len(peers_by_level'[b][level_of(b, self_id[a])]) <= MAX_LEVEL_PEERS]_vars

\* C18 as claimed: a lookup at node N of the tag that an upload of data at N
\* has just returned, answered by honest and responsive peers while no
\* routing table changes between the upload's return and the lookup's,
\* returns exactly data.
C18_RoundTripAfterReturn ==
    \A t \in Tasks :
        (HonestDone(t) /\ tasks[t].blob # None)
        => tasks[t].res = [kind |-> "Ok", val |-> tasks[t].blob]

\* C18: a lookup at node N of the tag that an upload of data at N has just
\* returned, answered by honest and responsive peers while no routing table
\* changes from the moment the upload was issued to the lookup's return,
\* returns exactly data, and neither call sends a message when N has no
\* peers; a lookup of a tag that no node stores returns None and no error.
C18_RoundTrip ==
    \A t \in Tasks :
        HonestDone(t) =>
            /\ (tasks[t].blob # None /\ tasks[t].calm) =>
                  /\ tasks[t].res = [kind |-> "Ok", val |-> tasks[t].blob]
                  /\ DOMAIN peers[tasks[t].node] = {} => tasks[t].hops = 0
            /\ (\A n \in Nodes : ~Holds(n, tasks[t].tag[1]))
                  => tasks[t].res = [kind |-> "Ok", val |-> None]

\* C18 witness: the bytes came back from another node, two requests away,
\* than the one that took the upload and looked them up.
C18_Witness ==
    \E t \in Tasks :
        /\ HonestDone(t) /\ tasks[t].blob # None /\ tasks[t].calm
        /\ tasks[t].hops >= 2
        /\ tasks[t].res = [kind |-> "Ok", val |-> tasks[t].blob]
        /\ ~Holds(tasks[t].node, tasks[t].tag[1])

\* C19 as claimed: a lookup walk answered by honest peers sends at most as
\* many locate requests as a tag has bits.
C19_HopsWithinBits ==
    \A t \in Tasks :
        (tasks[t].op = "fetch" /\ ~tasks[t].lied)
        => tasks[t].hops <= TagBytes * ByteBits

\* C19: a lookup walk answered by honest peers sends at most as many locate
\* requests as the network has nodes, asks no node twice, and never ends on
\* the branch that refuses a peer no closer than the one asked.
C19_HopsWithinNodes ==
    \A t \in Tasks :
        (tasks[t].op = "fetch" /\ ~tasks[t].lied) =>
            /\ tasks[t].hops <= Cardinality(DOMAIN self_id)
            /\ tasks[t].res.kind # "Liar"
            /\ tasks[t].pc = "locate" =>
                  /\ tasks[t].cur[1].id \notin tasks[t].seen
                  /\ Cardinality(tasks[t].seen) = tasks[t].hops

\* C19 witness: an honest walk on unchanged routing tables returned after
\* more requests than a tag has bits.
C19_Witness ==
    \E t \in Tasks :
        /\ HonestDone(t) /\ tasks[t].res.kind = "Ok"
        /\ tasks[t].hops > TagBytes * ByteBits
        /\ tasks[t].hops <= Cardinality(DOMAIN self_id)

\* C20: a lookup sends its first locate request only to a peer strictly
\* closer to the tag than the local node (with no such peer it returns not
\* found without sending).
C20_FirstHopCloser ==
    \A t \in Tasks :
        (tasks[t].op = "fetch" /\ tasks[t].pc = "locate" /\ tasks[t].hops = 0)
        => tag_lt(dist_to(tasks[t].cur[1].id, tasks[t].tag[1]),
                  dist_to(self_id[tasks[t].node], tasks[t].tag[1]))

\* C21: in a lookup walk, a reply "not found" of the peer asked ends the walk
\* with not found; a reply that names a peer not strictly closer to the tag
\* than the peer asked ends the walk with not found, that peer is not asked
\* and the walk has sent one request more; a transport error ends the walk
\* with an error after that one request; a walk goes on only to a strictly
\* closer peer; and no request of a walk changes a routing table or a store.
C21_WalkOutcomes ==
    /\ [](\A t \in Tasks :
            tasks[t].pc = "locate" =>
               \A r \in Replies(t) \cup {recv_locate(tasks[t].cur[1].addr, tasks[t].tag[1])} :
                  LET out == on_reply(t, r, TRUE)
                      cur == tasks[t].cur[1]
                      tag == tasks[t].tag[1]
                      notfound == /\ out.pc = "done" /\ out.res.val = None
                                  /\ out.res.kind \in {"Ok", "Liar"}
                                  /\ out.hops = tasks[t].hops + 1
                  IN  /\ r.kind = "none" => notfound /\ out.res.kind = "Ok"
                      /\ (r.kind = "next"
                            /\ ~tag_lt(dist_to(r.next[1].id, tag), dist_to(cur.id, tag)))
                           => notfound
                      /\ out.pc = "locate"
                           => /\ r.kind = "next" /\ out.cur = r.next
                              /\ tag_lt(dist_to(r.next[1].id, tag), dist_to(cur.id, tag)))
    /\ [][\A t \in Tasks :
             (tasks[t].pc = "locate" /\ tasks'[t].hops = tasks[t].hops + 1)
                => /\ UNCHANGED <<peers, peers_by_id, peers_by_level, next_idx, data>>
                   /\ fails' # fails
                        => /\ tasks'[t].pc = "done"
                           /\ tasks'[t].res = [kind |-> "Err", val |-> None]
                   /\ tasks'[t].pc = "locate"
                        => tag_lt(dist_to(tasks'[t].cur[1].id, tasks[t].tag[1]),
                                  dist_to(tasks[t].cur[1].id, tasks[t].tag[1]))]_vars

\* C21 witness: a walk that had followed one peer ended with not found on a
\* reply that named a peer no closer, while the node that looked the tag up
\* routes a peer.
C21_Witness ==
    \E t \in Tasks :
        /\ tasks[t].op = "fetch" /\ tasks[t].pc = "done"
        /\ tasks[t].res.kind = "Liar" /\ tasks[t].hops >= 2
        /\ DOMAIN peers[tasks[t].node] # {}

\* the remaining initial addresses are an end of the configured list
IsSuffix(q, full) == \E k \in 0..Len(full) : q = SubSeq(full, k + 1, Len(full))

\* C22: bootstrap takes the configured initial addresses in order: every
\* greet it sends is discover_peer(None, peer_addr), peer_addr being the
\* initial address in progress or the address of the last redirect; on
\* Err(Some(redirect)) it stays with the initial address and retries with
\* redirect; on Ok or Err(None) it goes on to the next initial address; and
\* the ticks start only when no initial address is left.
C22_BootstrapOrder ==
    /\ [](LET run == tasks[Runner]
          IN  run.op = "run" =>
                 /\ IsSuffix(run.todo, run.initial_peers)
                 /\ run.pc = "boot" <=> run.todo # << >>
                 /\ tasks[1].op = "ping_tick" => run.pc = "ticks"
                 /\ (run.pc = "boot" /\ tasks[1].pc = "greet")
                       => /\ tasks[1].sid = None /\ tasks[1].addr = run.addr
                          /\ tasks[1].node = run.node)
    /\ [][LET run == tasks[Runner]
              r   == tasks[1].res
          IN  (run.op = "run" /\ run.pc = "boot") =>
                 /\ (tasks[1].pc = "done" /\ tasks'[1].pc # "done") =>
                       IF r.kind = "Err" /\ r.val # None
                       THEN /\ tasks'[Runner].todo = run.todo
                            /\ tasks'[Runner].addr = r.val[1]
                            /\ tasks'[Runner].pc = "boot"
                       ELSE /\ tasks'[Runner].todo = Tail(run.todo)
                            /\ tasks'[Runner].todo # << >>
                                  => tasks'[Runner].addr = tasks'[Runner].todo[1]
                 /\ tasks[1].pc # "done" =>
                       /\ tasks'[Runner].todo = run.todo
                       /\ tasks'[Runner].addr = run.addr
                 /\ (tasks[1].pc = "idle" /\ run.addr = run.todo[1]
                        /\ tasks'[1].pc = "greet")
                       => tasks'[1].addr = run.todo[1]]_vars

\* C22 witness: bootstrap greets the address of a redirect, which is not the
\* initial address in progress, with a second initial address still to come.
C22_Witness ==
    /\ tasks[Runner].op = "run" /\ tasks[Runner].pc = "boot"
    /\ tasks[1].pc = "greet" /\ tasks[1].sid = None
    /\ tasks[1].addr = tasks[Runner].addr
    /\ tasks[Runner].addr # tasks[Runner].todo[1]
    /\ Len(tasks[Runner].todo) = 2

\* C23: a ping tick starts from the snapshot of every (idx, addr) of the
\* routing table and probes the entries one by one, each once; a probe that
\* fails removes the entry with the snapshot's idx, if it is still there,
\* from peers, peers_by_id and its bucket in the same step, and changes no
\* other entry, whatever happened to the table since the snapshot; a probe
\* that succeeds changes nothing.
C23_PingTick ==
    [][\A t \in Tasks :
          LET n == tasks[t].node
          IN  /\ (tasks[t].pc # "pt_loop" /\ tasks'[t].pc = "pt_loop")
                    => tasks'[t].snap =
                          {<<i, peers[tasks'[t].node][i].addr>> :
                               i \in DOMAIN peers[tasks'[t].node]}
              /\ (tasks[t].pc = "pt_loop" /\ tasks'[t] # tasks[t])
                    => \E e \in tasks[t].snap :
                          /\ tasks'[t].snap = tasks[t].snap \ {e}
                          /\ tasks'[t].pc = "done" <=> tasks[t].snap = {e}
                          /\ fails' = fails
                                => UNCHANGED <<peers, peers_by_id, peers_by_level>>
                          /\ fails' # fails
                                => /\ DOMAIN peers'[n] = DOMAIN peers[n] \ {e[1]}
                                   /\ \A i \in DOMAIN peers'[n] : peers'[n][i] = peers[n][i]
                                   /\ \A id \in DOMAIN peers_by_id[n] :
                                         IF peers_by_id[n][id] = e[1]
                                         THEN id \notin DOMAIN peers_by_id'[n]
                                         ELSE /\ id \in DOMAIN peers_by_id'[n]
                                              /\ peers_by_id'[n][id] = peers_by_id[n][id]
                                   /\ DOMAIN peers_by_id'[n] \subseteq DOMAIN peers_by_id[n]
                                   /\ \A l \in Levels :
                                         peers_by_level'[n][l] = Retain(peers_by_level[n][l], e[1])
                                   /\ \A m \in Nodes \ {n} :
                                         /\ peers'[m] = peers[m]
                                         /\ peers_by_id'[m] = peers_by_id[m]
                                         /\ peers_by_level'[m] = peers_by_level[m]]_vars

\* C23 witness: node 1 accepted two peers in all and two probes failed, yet
\* it routes a peer when all ticks have returned: one of the two removals
\* came with an idx that was no longer in the table, and removed nothing.
C23_Witness ==
    /\ fails = PingFails
    /\ next_idx[1] = 2
    /\ Cardinality(DOMAIN peers[1]) = 1
    /\ \A t \in Tasks : tasks[t].op = "ping_tick" /\ tasks[t].pc = "done"

\* the peer that the current peer of the discover tick has offered lies
\* above the level that was asked for
OfferedAboveLevel ==
    /\ tasks[Runner].op = "run" /\ tasks[Runner].pc = "dt_greet"
    /\ level(dist_to(tasks[Runner].pid[1], self_id[tasks[Runner].node]))
          > tasks[Runner].max_level

\* C24: the discover tick at level L goes on to discover_peer for the peer
\* offered only if level(xor(offered.tag, self.tag)) <= L; an offer above L
\* ends the tick with no greet and the current peer as it was.
C24_DiscoverLevelCheck == ~OfferedAboveLevel

\* C25: a peer that answers a discover request with a peer above the level
\* asked for changes nothing in the routing table of the node that asked
\* (the peer offered is not inserted, the peer that answered is not
\* removed), and a routed peer leaves the table only in a ping tick, by a
\* probe that failed.
C25_MisbehaviourFrame ==
    [][LET n == tasks[Runner].node
       IN  /\ OfferedAboveLevel =>
                 /\ peers'[n] = peers[n]
                 /\ peers_by_id'[n] = peers_by_id[n]
                 /\ peers_by_level'[n] = peers_by_level[n]
           /\ \A m \in Nodes :
                 ~(DOMAIN peers[m] \subseteq DOMAIN peers'[m])
                    => /\ fails' # fails
                       /\ \E t \in Tasks : tasks[t].op = "ping_tick" /\ tasks[t].node = m]_vars

\* the node whose state mutex the next step of the call in slot t takes
\* (0: the call is not running, or its next step takes none)
Waits(t) ==
    LET pc == tasks[t].pc
    IN  IF pc \in {"greet", "rg_refuse"} THEN tasks[t].addr
        ELSE IF pc \in {"rg_accept", "dp_accept", "ap_accept",
                        "rg_insert", "dp_insert", "ap_insert"} THEN tasks[t].at
        ELSE 0

\* C26: no call holds a state mutex while it is suspended (sending, or
\* waiting for a reply), so the mutex that the next step of any running call
\* takes is free: no greet, accept or ping tick, of a node to itself
\* included, ever waits for a mutex that a suspended call holds.
C26_NoLockAcrossAwait ==
    \A t \in Tasks :
        /\ tasks[t].holds = 0
        /\ Waits(t) # 0 => Unlocked(Waits(t))

\* C26 witness: node 1 has greeted itself and its handler is about to read
\* its own routing table, while another call is between its probe and its
\* insert into that same table.
C26_Witness ==
    \E t \in Tasks, u \in Tasks :
        /\ t # u
        /\ tasks[t].pc = "greet" /\ tasks[t].node = tasks[t].addr
        /\ tasks[u].pc \in {"rg_insert", "dp_insert", "ap_insert"}
        /\ tasks[u].at = tasks[t].addr

\* the entries of n's peers with the id `id`
EntriesOf(n, id) == {i \in DOMAIN peers[n] : peers[n][i].id = id}

\* C27: whatever accept_peer calls for one id run together, and however many
\* of them pass the first presence check and their probes, the id has at
\* most one entry in peers, which is the one peers_by_id names and which is
\* in its bucket once; the insert of a call that finds the id present
\* changes nothing, and the insert of a call that does not adds exactly
\* that one entry.
C27_ConcurrentAccept ==
    /\ [](\A n \in Nodes : \A m \in Nodes :
             LET id == self_id[m]
             IN  /\ Cardinality(EntriesOf(n, id)) <= 1
                 /\ id \in DOMAIN peers_by_id[n] <=> EntriesOf(n, id) # {}
                 /\ \A i \in EntriesOf(n, id) :
                       /\ peers_by_id[n][id] = i
                       /\ Occurrences(n, i) = 1
                       /\ i \in Range(peers_by_level[n][level_of(n, id)]))
    /\ [][\A t \in Tasks :
             (tasks[t].pc \in InsertPcs /\ tasks'[t].pc # tasks[t].pc)
                => LET n  == tasks[t].at
                       id == tasks[t].pid[1]
                   IN  IF id \in DOMAIN peers_by_id[n]
                       THEN UNCHANGED <<peers, peers_by_id, peers_by_level, next_idx>>
                       ELSE /\ DOMAIN peers'[n] = DOMAIN peers[n] \cup {next_idx[n]}
                            /\ peers'[n][next_idx[n]] = [id |-> id, addr |-> tasks[t].paddr]
                            /\ \A i \in DOMAIN peers[n] : peers'[n][i] = peers[n][i]]_vars

\* C27 witness: two accept_peer calls have both returned true and no probe
\* has failed, yet node 1 has allotted one idx in all and no other node
\* any: both calls passed the first presence check for the same id at node
\* 1, and the insert of the later one found the id present.
C27_Witness ==
    /\ \A t \in Tasks : /\ tasks[t].op = "accept_peer" /\ tasks[t].pc = "done"
                        /\ tasks[t].res.kind = "true"
    /\ fails = 0
    /\ next_idx[1] = 1 /\ \A n \in Nodes \ {1} : next_idx[n] = 0
    /\ Cardinality(DOMAIN peers[1]) = 1

\* the value of a tag read as a big-endian unsigned integer
BigEndian(d) == CHOOSE v \in 0..(ByteVals ^ TagBytes - 1) : from_bytes(v) = d

\* the position of the most significant set bit of a distance, counted from
\* the least significant bit; -1 for the zero distance
MsbPos(d) == IF BigEndian(d) = 0 THEN -1 ELSE ilog2(BigEndian(d))

\* the calls that measured their id
Measured == {t \in Tasks : tasks[t].op = "level" /\ tasks[t].pc = "done"}

\* C28: for any two measured distances d1 <= d2 (as big-endian unsigned
\* integers) the level of d1 is at most the level of d2; two distances with
\* the same most significant set bit have the same level; and every level
\* lies in 0..TopLevel.
C28_LevelMonotone ==
    \A t \in Measured : \A u \in Measured :
        LET d1 == tasks[t].cur[1]
            d2 == tasks[u].cur[1]
        IN  /\ BigEndian(d1) <= BigEndian(d2) => tasks[t].max_level <= tasks[u].max_level
            /\ MsbPos(d1) = MsbPos(d2) => tasks[t].max_level = tasks[u].max_level
            /\ tasks[t].max_level \in Levels

\* what does hold of Tag::level: it is a function of the most significant
\* set bit and stays in 0..TopLevel; between two distances whose first
\* non-zero bytes are at different indices it is monotone, and between two
\* whose first non-zero byte is at the same index it is antitone
C28_LevelShape ==
    \A t \in Measured : \A u \in Measured :
        LET d1 == tasks[t].cur[1]
            d2 == tasks[u].cur[1]
            FirstByte(d) == CHOOSE k \in 1..TagBytes :
                                d[k] # 0 /\ \A j \in 1..(k - 1) : d[j] = 0
        IN  /\ MsbPos(d1) = MsbPos(d2) => tasks[t].max_level = tasks[u].max_level
            /\ tasks[t].max_level \in Levels
            /\ (MsbPos(d1) >= 0 /\ MsbPos(d2) >= 0 /\ BigEndian(d1) <= BigEndian(d2))
                  => IF FirstByte(d1) = FirstByte(d2)
                     THEN tasks[t].max_level >= tasks[u].max_level
                     ELSE tasks[t].max_level < tasks[u].max_level

\* C29: run() eventually leaves its bootstrap loop for the ticks, whatever
\* the initial addresses and the routing tables of the nodes it greets, when
\* every greet is answered.
C29_BootstrapTerminates == <>(tasks[Runner].pc = "ticks")

\* the redirect loop of two nodes: node 1 is in its bootstrap loop, it and
\* node 2 route each other and nobody else, so that node 2 refuses node 1
\* (routed already) and names node 1, and node 1 refuses itself (own id)
\* and names node 2
C29_RedirectLoop ==
    /\ tasks[Runner].pc = "boot"
    /\ tasks[Runner].addr \in {1, 2}
    /\ \/ tasks[1].pc = "idle"
       \/ /\ tasks[1].op = "discover_peer" /\ tasks[1].pc \in {"greet", "rg_refuse"}
          /\ tasks[1].node = 1 /\ tasks[1].addr = tasks[Runner].addr
       \/ /\ tasks[1].op = "discover_peer" /\ tasks[1].pc = "done"
          /\ tasks[1].res.kind = "Err" /\ tasks[1].res.val \in {Some(1), Some(2)}
    /\ {peers[1][i].addr : i \in DOMAIN peers[1]} = {2}
    /\ {peers[2][i].addr : i \in DOMAIN peers[2]} = {1}

\* once in the redirect loop of two nodes, run() stays in its bootstrap
\* loop for as long as no third node joins the table of node 2 and no
\* request fails
C29_LoopIsClosed ==
    [][(C29_RedirectLoop /\ peers'[2] = peers[2] /\ fails' = fails)
          => C29_RedirectLoop']_vars

\* C30: when every request is answered by recv_locate, the hop a lookup is
\* about to ask is a node known under its own id, every Err(next) it can
\* receive from that hop names a node strictly closer to the tag than the
\* hop, whatever the routing tables have become meanwhile, and a lookup
\* that returned did not end in the liar branch: it ended with the data,
\* with Ok(None) from a hop with no closer peer (or an empty table at the
\* start), or with a transport error.
C30_NoLiarAmongHonest ==
    \A t \in Tasks :
        /\ tasks[t].pc = "locate" =>
              LET cur == tasks[t].cur[1]
                  tag == tasks[t].tag[1]
                  r   == recv_locate(cur.addr, tag)
              IN  /\ cur.id = self_id[cur.addr]
                  /\ r.kind = "next" =>
                        /\ tag_lt(dist_to(r.next[1].id, tag), dist_to(cur.id, tag))
                        /\ follows(r.next[1].id, cur.id, tag)
        /\ (tasks[t].op = "fetch" /\ tasks[t].pc = "done") =>
              /\ ~tasks[t].lied
              /\ tasks[t].res.kind \in {"Ok", "Err"}

\* C30 witness: a lookup followed a peer named in an Err(next) reply while
\* a routing table changed under it, and returned.
C30_Witness ==
    \E t \in Tasks :
        /\ tasks[t].op = "fetch" /\ tasks[t].pc = "done"
        /\ tasks[t].hops >= 2
        /\ ~tasks[t].stable
        /\ tasks[t].res.kind = "Ok"

\* the calls that only read
ReadOps == {"ping", "discover", "load_data", "locate", "fetch"}

\* slot t takes a step of a call that only reads: such a call starts (and,
\* but for a lookup that has a peer to ask, returns at once), or a lookup
\* takes the reply to one request
ReadStep(t) ==
    \/ /\ tasks[t].pc \in {"idle", "done"}
       /\ tasks'[t].op \in ReadOps
       /\ [tasks'[t] EXCEPT !.stable = TRUE] # [tasks[t] EXCEPT !.stable = TRUE]
    \/ /\ tasks[t].op = "fetch" /\ tasks[t].pc = "locate"
       /\ tasks'[t].hops = tasks[t].hops + 1

\* C31: every step of recv_ping, recv_discover, recv_locate, load_data and
\* fetch_data, whatever the reply a lookup receives, leaves the routing
\* table (peers, peers_by_id, peers_by_level, the next fresh idx) and the
\* content store of every node unchanged; a lookup that got the bytes from
\* a peer returns them and its node's store does not hold them afterwards
\* unless it did before.
C31_ReadOnly ==
    [][\A t \in Tasks :
          ReadStep(t) =>
             /\ UNCHANGED <<peers, peers_by_id, peers_by_level, next_idx, data>>
             /\ UNCHANGED self_id]_vars

\* C31 witness: a lookup at a node that routes a peer has returned bytes it
\* got from a peer, another node holds them, and the store of the node that
\* looked them up does not.
C31_Witness ==
    \E t \in Tasks :
        /\ tasks[t].op = "fetch" /\ tasks[t].pc = "done"
        /\ tasks[t].hops >= 1 /\ ~tasks[t].lied
        /\ tasks[t].res.kind = "Ok" /\ tasks[t].res.val # None
        /\ tasks[t].tag[1] \notin DOMAIN data[tasks[t].node]
        /\ \E m \in Nodes : tasks[t].tag[1] \in DOMAIN data[m]
        /\ DOMAIN peers[tasks[t].node] # {}

====
